---- MODULE Spec2Model ----
(***************************************************************************)
(* Smart Message Organizer: the rule engine (models/classifier.py), the    *)
(* hybrid dispatcher and the batch orchestrator (models/ml_classifier.py), *)
(* the correction store (models/model_learning.py) and the endpoints of    *)
(* app.py that drive them.                                                 *)
(* Strings are TLC strings; str.lower(), the substring test `in` and the   *)
(* regular expressions of the pattern tables are computed character by     *)
(* character.                                                              *)
(***************************************************************************)
EXTENDS Integers, Sequences, FiniteSets, TLC

VARIABLES
    request,               \* app.py: the messages of the /classify request as sent
    response,              \* app.py: the response given to the request
    classifier,            \* app.py: which classifier object serves /classify
    classifier_pipeline,   \* MLClassifier.classifier_pipeline is loaded
    model,                 \* MLClassifier.model and .tokenizer are loaded
    messages,              \* the batch handed to classify_batch
    category,              \* message.category of each message of the batch
    rule_based_messages,   \* classify_batch local: indices routed to the rules
    ml_messages,           \* classify_batch local: indices routed to inference
    categorized,           \* classify_batch local: the three output lists
    pc,                    \* position of the request thread
    pos,                   \* index of the running loop
    worker,                \* the executor's worker thread
    worker_result,         \* what _ml_classify returned (or "None")
    worker_cause,          \* why _ml_classify returned what it returned
    worker_calls,          \* calls of the inference backend made by the worker
    future_exc,            \* exception future.result raised in the with block
    attempts,              \* number of executor.submit calls of the batch
    faults,                \* messages whose classification raised unexpectedly
    last,                  \* outcome record of the last classified message
    feedback_data,         \* ModelLearningSystem.feedback_data (in memory)
    feedback_file,         \* the content of the feedback file on disk
    in_flight,             \* /correction requests received and not yet handled
    recorded,              \* the /correction requests handled, in that order
    loaded,                \* feedback_data as _load_feedback returned it at startup
    estimate,              \* what get_accuracy_estimate returned last
    best_label             \* result['labels'][0] of the last zero-shot pipeline call

vars == <<request, response, classifier, classifier_pipeline, model, messages, category,
          rule_based_messages, ml_messages, categorized, pc, pos, worker,
          worker_result, worker_cause, worker_calls, future_exc, attempts,
          faults, last, feedback_data, feedback_file, in_flight, recorded,
          loaded, estimate, best_label>>

\* the state of the learning system
learning_vars == <<feedback_data, feedback_file, in_flight, recorded, loaded, estimate>>

None == "None"
Categories == {"needs_reply", "important", "ignore"}

-----------------------------------------------------------------------------
(* Python string primitives *)

UpperChars == <<"A","B","C","D","E","F","G","H","I","J","K","L","M",
                "N","O","P","Q","R","S","T","U","V","W","X","Y","Z">>
LowerChars == <<"a","b","c","d","e","f","g","h","i","j","k","l","m",
                "n","o","p","q","r","s","t","u","v","w","x","y","z">>

\* str.lower() of one character
LowerChar(c) ==
    IF \E k \in 1..26 : UpperChars[k] = c
    THEN LowerChars[CHOOSE k \in 1..26 : UpperChars[k] = c]
    ELSE c

RECURSIVE Lower(_)
\* str.lower()
Lower(s) ==
    IF Len(s) = 0 THEN ""
    ELSE LowerChar(SubSeq(s, 1, 1)) \o Lower(SubSeq(s, 2, Len(s)))

\* the substring starts at position p of s
At(s, k, p) == p >= 1 /\ p + Len(k) - 1 <= Len(s) /\ SubSeq(s, p, p + Len(k) - 1) = k

\* Python `k in s` on strings
Contains(s, k) == \E p \in 1..(Len(s) - Len(k) + 1) : At(s, k, p)

\* re.search of  pre.*post  (the dot matches any character but a newline);
\* a pattern without .* has post = ""
ReSearch(pat, s) ==
    \E p \in 1..(Len(s) - Len(pat.pre) + 1) :
        /\ At(s, pat.pre, p)
        /\ \E q \in (p + Len(pat.pre))..(Len(s) - Len(pat.post) + 1) :
              /\ At(s, pat.post, q)
              /\ \A r \in (p + Len(pat.pre))..(q - 1) : SubSeq(s, r, r) # "\n"

Lit(text) == [pre |-> text, post |-> ""]
Star(a, b) == [pre |-> a, post |-> b]

\* any(f(x) for x in seq)
AnyIn(seq, s) == \E k \in 1..Len(seq) : Contains(s, seq[k])
AnyRe(seq, s) == \E k \in 1..Len(seq) : ReSearch(seq[k], s)

\* number of keywords of the list found in the text
CountIn(seq, s) == Cardinality({k \in 1..Len(seq) : Contains(s, seq[k])})

-----------------------------------------------------------------------------
(* Pattern tables of MessageClassifier.__init__ *)

reply_keywords ==
    <<"question", "?", "please", "request", "urgent",
      "asap", "deadline", "meeting", "call", "respond",
      "reply", "answer", "confirm", "approve", "review",
      "action required", "need your", "would you", "can you",
      "could you", "should we", "when can", "what time",
      "schedule", "availability", "feedback", "input",
      "submit", "complete", "fill out", "required", "must">>

important_keywords ==
    <<"important", "critical", "priority", "action required",
      "confirmation", "approval", "decision", "review",
      "update", "announcement", "notice", "reminder",
      "deadline", "due date", "meeting", "conference",
      "project", "task", "assignment", "report",
      "class", "course", "homework", "exam", "test", "quiz",
      "grade", "grades", "syllabus", "lecture", "lesson",
      "teacher", "professor", "instructor", "student",
      "academic", "education", "school", "university",
      "new post", "new assignment", "new material">>

ignore_keywords ==
    <<"unsubscribe", "newsletter", "promotion", "spam",
      "no-reply", "noreply", "donotreply",
      "marketing", "advertisement", "deal",
      "offer", "discount", "sale",
      "digest", "summary", "weekly", "monthly",
      "social media", "facebook", "twitter", "linkedin",
      "instagram", "youtube", "subscription",
      "promotional", "special offer", "limited time">>

important_sender_patterns ==
    <<Lit("classroom.google.com"), Star("@", ".edu"), Lit("teacher@"),
      Lit("professor@"), Lit("instructor@"), Lit("faculty@"),
      Star("staff@", ".edu"), Star("admin@", ".edu"), Star("@", "school"),
      Star("@", "university"), Star("@", "college"), Star("@", "academy")>>

informational_keywords ==
    <<"announcement", "announcements", "new announcement",
      "update", "updates", "notice", "notices",
      "reminder", "reminders", "information", "info",
      "posted", "shared", "published", "available">>

no_reply_patterns ==
    <<Lit("no-reply@"), Lit("noreply@"), Lit("no_reply@"),
      Lit("donotreply@"), Lit("do-not-reply@")>>

important_domains ==
    <<"classroom.google.com", "edu", "school", "university", "college", "academy">>

ignore_sender_patterns ==
    <<Lit("noreply@"), Lit("no-reply@"), Lit("donotreply@"), Lit("newsletter@"),
      Lit("marketing@"), Lit("promo@"), Lit("deals@"), Lit("offers@")>>

contextual_ignore_keywords == <<"notification", "automated">>

\* a plausible slip: an entry of the routing set is missing from the rule
\* engine's keywords
NoStaff_educational_keywords == <<"teacher", "professor", "instructor", "faculty", "admin">>

educational_keywords == <<"teacher", "professor", "instructor", "faculty", "staff", "admin">>
marketing_domains == <<"marketing", "promo", "deals", "offers", "newsletter">>
assignment_keywords == <<"assignment", "homework", "due", "submit", "complete", "required", "deadline">>
request_phrases == <<"please", "need your", "would you", "can you", "could you", "action required">>
marketing_indicators == <<"promotion", "deal", "offer", "sale", "discount", "marketing">>

-----------------------------------------------------------------------------
(* The rule engine: MessageClassifier *)

_is_important_sender(sender) ==
    LET sender_lower == Lower(sender) IN
    \/ AnyRe(important_sender_patterns, sender_lower)
    \/ AnyIn(important_domains, sender_lower)
    \/ AnyIn(educational_keywords, sender_lower)

_is_marketing_sender(sender) ==
    LET sender_lower == Lower(sender) IN
    \/ AnyRe(ignore_sender_patterns, sender_lower)
    \/ AnyIn(marketing_domains, sender_lower)

\* combined_text = f"{subject_lower} {preview_lower}"
CombinedText(message) == Lower(message.subject) \o " " \o Lower(message.preview)

\* reply_score: one per reply keyword found, plus 2 for a question mark
ReplyScore(combined_text) ==
    CountIn(reply_keywords, combined_text)
        + (IF Contains(combined_text, "?") THEN 2 ELSE 0)

\* a plausible slip: the reply indicators are tested before the no-reply
\* announcement rule
ReplyFirst_ImportantSenderBranch(message) ==
    LET combined_text == CombinedText(message)
        sender_lower == Lower(message.sender)
        is_no_reply_sender == AnyRe(no_reply_patterns, sender_lower)
        is_informational == AnyIn(informational_keywords, combined_text)
        reply_score == ReplyScore(combined_text)
        has_assignment == AnyIn(assignment_keywords, combined_text)
        has_request == AnyIn(request_phrases, combined_text)
    IN  IF reply_score >= 3 \/ (reply_score >= 2 /\ Contains(combined_text, "?"))
            THEN "needs_reply"
        ELSE IF has_assignment /\ (reply_score >= 1 \/ has_request) THEN "needs_reply"
        ELSE IF has_request /\ reply_score >= 1 THEN "needs_reply"
        ELSE IF is_no_reply_sender /\ is_informational THEN "important"
        ELSE "important"

\* the branch taken when is_important_sender holds (lines 216-254)
ImportantSenderBranch(message) ==
    LET combined_text == CombinedText(message)
        sender_lower == Lower(message.sender)
        is_no_reply_sender == AnyRe(no_reply_patterns, sender_lower)
        is_informational == AnyIn(informational_keywords, combined_text)
        reply_score == ReplyScore(combined_text)
        has_assignment == AnyIn(assignment_keywords, combined_text)
        has_request == AnyIn(request_phrases, combined_text)
    IN  IF is_no_reply_sender /\ is_informational THEN "important"
        ELSE IF reply_score >= 3 \/ (reply_score >= 2 /\ Contains(combined_text, "?"))
            THEN "needs_reply"
        ELSE IF has_assignment /\ (reply_score >= 1 \/ has_request) THEN "needs_reply"
        ELSE IF has_request /\ reply_score >= 1 THEN "needs_reply"
        ELSE "important"

\* a plausible slip: an ignore keyword in the text is enough, whoever sent it
Unconditional_IgnoreKeywordScan(message, is_marketing_sender) ==
    AnyIn(ignore_keywords, CombinedText(message))

\* the scan of ignore_keywords (lines 263-276): TRUE when it returns "ignore"
IgnoreKeywordScan(message, is_marketing_sender) ==
    LET combined_text == CombinedText(message) IN
    \E k \in 1..Len(ignore_keywords) :
        /\ Contains(combined_text, ignore_keywords[k])
        /\ \/ is_marketing_sender
           \/ /\ \E c \in 1..Len(contextual_ignore_keywords) :
                     contextual_ignore_keywords[c] = ignore_keywords[k]
              /\ AnyIn(marketing_indicators, combined_text)

\* a plausible slip: the final default branch is missing, the function falls
\* off its end and returns None
NoDefault_ScoringBranch(message) ==
    LET combined_text == CombinedText(message)
        reply_score == ReplyScore(combined_text)
        has_assignment == AnyIn(assignment_keywords, combined_text)
        important_score == CountIn(important_keywords, combined_text)
    IN  IF reply_score >= 3 \/ (reply_score >= 2 /\ Contains(combined_text, "?"))
            THEN "needs_reply"
        ELSE IF has_assignment /\ reply_score >= 1 THEN "needs_reply"
        ELSE IF reply_score >= 2 THEN "needs_reply"
        ELSE IF important_score >= 2 \/ (important_score >= 1 /\ reply_score >= 1)
            THEN "important"
        ELSE IF has_assignment THEN "important"
        ELSE IF reply_score >= 1 THEN "important"
        ELSE None

\* a plausible slip: the branch of a reply score of 2 without a question mark
\* is missing
NoScoreTwo_ScoringBranch(message) ==
    LET combined_text == CombinedText(message)
        reply_score == ReplyScore(combined_text)
        has_assignment == AnyIn(assignment_keywords, combined_text)
        important_score == CountIn(important_keywords, combined_text)
    IN  IF reply_score >= 3 \/ (reply_score >= 2 /\ Contains(combined_text, "?"))
            THEN "needs_reply"
        ELSE IF has_assignment /\ reply_score >= 1 THEN "needs_reply"
        ELSE IF important_score >= 2 \/ (important_score >= 1 /\ reply_score >= 1)
            THEN "important"
        ELSE IF has_assignment THEN "important"
        ELSE IF reply_score >= 1 THEN "important"
        ELSE "important"

\* the scoring rules of lines 278-322
ScoringBranch(message) ==
    LET combined_text == CombinedText(message)
        reply_score == ReplyScore(combined_text)
        has_assignment == AnyIn(assignment_keywords, combined_text)
        important_score == CountIn(important_keywords, combined_text)
    IN  IF reply_score >= 3 \/ (reply_score >= 2 /\ Contains(combined_text, "?"))
            THEN "needs_reply"
        ELSE IF has_assignment /\ reply_score >= 1 THEN "needs_reply"
        ELSE IF reply_score >= 2 THEN "needs_reply"
        ELSE IF important_score >= 2 \/ (important_score >= 1 /\ reply_score >= 1)
            THEN "important"
        ELSE IF has_assignment THEN "important"
        ELSE IF reply_score >= 1 THEN "important"
        ELSE "important"

\* a plausible slip: the marketing test placed before the important-sender test
MarketingFirst_classify_message(message) ==
    IF _is_marketing_sender(message.sender) THEN "ignore"
    ELSE IF _is_important_sender(message.sender) THEN ImportantSenderBranch(message)
    ELSE IF IgnoreKeywordScan(message, FALSE) THEN "ignore"
    ELSE ScoringBranch(message)

\* a plausible slip: the scoring rules placed before the marketing test
ScoringFirst_classify_message(message) ==
    IF _is_important_sender(message.sender) THEN ImportantSenderBranch(message)
    ELSE IF ScoringBranch(message) = "needs_reply" THEN "needs_reply"
    ELSE IF _is_marketing_sender(message.sender) THEN "ignore"
    ELSE IF IgnoreKeywordScan(message, FALSE) THEN "ignore"
    ELSE ScoringBranch(message)

\* MessageClassifier.classify_message
MessageClassifier_classify_message(message) ==
    LET is_important_sender == _is_important_sender(message.sender)
        is_marketing_sender == _is_marketing_sender(message.sender)
    IN  IF is_important_sender THEN ImportantSenderBranch(message)
        ELSE IF is_marketing_sender THEN "ignore"
        ELSE IF IgnoreKeywordScan(message, is_marketing_sender) THEN "ignore"
        ELSE ScoringBranch(message)

-----------------------------------------------------------------------------
(* Bounds and the inputs drawn by the initial states *)

MaxBatch == 3        \* longest batch of Init
MaxLong == 15        \* longest batch of InitCap
MaxFaults == 1       \* unexpected exceptions injected per batch

ML_CLASSIFICATION_CAP == 10

Senders ==
    {"Teacher@School.EDU", "no-reply@classroom.google.com", "admin@corp.com",
     "promo@myschool.org", "newsletter@deals.com", "friend@gmail.com",
     "noreply@shop.com"}
Subjects ==
    {"Please confirm attendance?", "50% off sale this week",
     "New announcement posted", "Lunch tomorrow?",
     "Automated notification: special offer", "Automated notification",
     "Weekly digest", "Hello", "Homework due", "Meeting request"}
Previews == {"", "let me know", "Please reply", "ok?"}

Msg(sender, subject, preview) ==
    [sender |-> sender, subject |-> subject, preview |-> preview]

\* every message of the bounded input space
RulePool == {Msg(a, b, c) : a \in Senders, b \in Subjects, c \in Previews}

\* the messages batches are built from
BatchPool ==
    {Msg("Teacher@School.EDU", "Please confirm attendance?", ""),
     Msg("admin@corp.com", "Hello", ""),
     Msg("newsletter@deals.com", "50% off sale this week", ""),
     Msg("friend@gmail.com", "Lunch tomorrow?", "let me know")}

\* senders for the routing sets: one per entry of the fast-path set and of the
\* zero-shot pre-filter, in either case of letters, an entry inside a longer
\* word, a marketing domain behind one, and senders that miss every entry
RouteSenders ==
    {"x@classroom.google.com", "Dean@Uni.EDU", "bob@.edu", "teacher@x.com",
     "professor@x.com", "instructor@x.com", "faculty@x.com", "staff@deals.com",
     "mystaffing@corp.com", "Head.Teacher@corp.com",
     "friend@gmail.com", "admin@corp.com", "dean@myschool.org", "eduardo@corp.com"}
RouteSubjects == {"Weekly digest", "Lunch tomorrow?", "New announcement posted"}
RoutePool == {Msg(a, b, "") : a \in RouteSenders, b \in RouteSubjects}

AllSenders == Senders \cup RouteSenders
AllMessages == RulePool \cup RoutePool

\* the rule engine's answer for every message of the input space
RuleTable == [m \in AllMessages |-> MessageClassifier_classify_message(m)]
RuleCategory(message) == RuleTable[message]

Indices == 1..Len(messages)
Message(idx) == messages[idx]

EmptyLists == [needs_reply |-> <<>>, important |-> <<>>, ignore |-> <<>>]
NoOutcome == [idx |-> 0, path |-> "none", cause |-> "none", returned |-> None,
              late |-> None, category |-> None, answer |-> "unasked", calls |-> 0]

-----------------------------------------------------------------------------
(* ModelLearningSystem (models/model_learning.py): the correction store *)

MaxCorrections == 3  \* /correction requests of one run

\* {"corrections": [], "statistics": {}}
EmptyData == [corrections |-> <<>>, statistics |-> [key \in {} |-> 0]]

\* the feedback file: missing, unreadable, or holding feedback data
AbsentFile == [status |-> "absent", data |-> EmptyData]
CorruptFile == [status |-> "corrupt", data |-> EmptyData]
StoredFile(data) == [status |-> "ok", data |-> data]

\* _load_feedback (lines 30-42): the file's data, or empty data when the file
\* is missing or cannot be read
_load_feedback(file) == IF file.status = "ok" THEN file.data ELSE EmptyData

\* a plausible slip: the two categories of the key in the other order
Swapped_StatKey(predicted, correct) == correct \o "_to_" \o predicted

\* the key of the statistics counter: f"{predicted_category}_to_{correct_category}"
StatKey(predicted, correct) == predicted \o "_to_" \o correct

\* lines 72-82: the record built from the request; the timestamp is the clock
StoredCorrection(req, now) ==
    [message_id |-> req.message_id, timestamp |-> now,
     predicted |-> req.predicted, correct |-> req.correct,
     message |-> [subject |-> req.message.subject, sender |-> req.message.sender,
                  preview |-> req.message.preview]]

\* a plausible slip: the new record is put at the head of the log
Prepending_AppendCorrection(corrections, correction) == <<correction>> \o corrections

\* line 83: self.feedback_data["corrections"].append(correction)
AppendCorrection(corrections, correction) == Append(corrections, correction)

\* a plausible slip: the counter is set instead of incremented
Overwriting_UpdateStatistics(stats, key) ==
    IF key \in DOMAIN stats THEN [stats EXCEPT ![key] = 1] ELSE stats @@ (key :> 1)

\* lines 89-91: stats[key] = stats.get(key, 0) + 1
UpdateStatistics(stats, key) ==
    IF key \in DOMAIN stats THEN [stats EXCEPT ![key] = @ + 1] ELSE stats @@ (key :> 1)

\* record_correction lines 72-91: the feedback data after the call
RecordCorrection(data, req, now) ==
    [corrections |-> AppendCorrection(data.corrections, StoredCorrection(req, now)),
     statistics |-> UpdateStatistics(data.statistics, StatKey(req.predicted, req.correct))]

\* _save_feedback (lines 44-53): the file is rewritten with all the data; an
\* exception is logged and swallowed, the file then left as it was or, when
\* the write failed after open(..., 'w') truncated it, unreadable
SaveOutcomes(file, data) == {StoredFile(data), file, CorruptFile}

\* line 214: recent_corrections = corrections[-50:]
recent_window == 50

\* a plausible slip: the window is the oldest 50 corrections, corrections[:50]
Oldest_RecentCorrections(corrections) ==
    SubSeq(corrections, 1,
           IF Len(corrections) > recent_window THEN recent_window ELSE Len(corrections))

\* line 214: corrections[-50:], the whole list when it is shorter
RecentCorrections(corrections) ==
    SubSeq(corrections,
           IF Len(corrections) > recent_window THEN Len(corrections) - recent_window + 1
           ELSE 1,
           Len(corrections))

\* line 217: sum(1 for c in recent_corrections if c["predicted"] == c["correct"])
CorrectPredictions(recent) ==
    Cardinality({k \in 1..Len(recent) : recent[k].predicted = recent[k].correct})

\* round(num / den, 0) as Python rounds: to the nearest integer, a tie to the
\* even one
RoundHalfEven(num, den) ==
    LET q == num \div den
        r == num % den
    IN  IF 2 * r < den THEN q
        ELSE IF 2 * r > den THEN q + 1
        ELSE IF q % 2 = 0 THEN q
        ELSE q + 1

\* lines 219-222: round((correct / total) * 100, 2), in hundredths of a
\* percent (3333 is 33.33)
RoundedAccuracy(correct, total) ==
    IF total > 0 THEN RoundHalfEven(10000 * correct, total) ELSE 0

\* nothing was asked of get_accuracy_estimate yet
NoStats ==
    [asked |-> FALSE, has_estimate |-> FALSE, accuracy_estimate |-> 0,
     total_corrections |-> 0, recent_corrections |-> 0,
     correct_predictions |-> 0, incorrect_predictions |-> 0]

\* get_accuracy_estimate (lines 198-227): the dictionary returned;
\* has_estimate is FALSE for "accuracy_estimate": None
get_accuracy_estimate(data) ==
    LET corrections == data.corrections
        recent_corrections == RecentCorrections(corrections)
        total == Len(recent_corrections)
        correct == CorrectPredictions(recent_corrections)
    IN  IF Len(corrections) = 0
        THEN [NoStats EXCEPT !.asked = TRUE]
        ELSE [asked |-> TRUE, has_estimate |-> TRUE,
              accuracy_estimate |-> RoundedAccuracy(correct, total),
              total_corrections |-> Len(corrections),
              recent_corrections |-> total,
              correct_predictions |-> correct,
              incorrect_predictions |-> total - correct]

\* the feedback files the process may find at startup
EarlierCorrection ==
    [message_id |-> "m0", timestamp |-> 0, predicted |-> "important",
     correct |-> "ignore",
     message |-> [subject |-> "Weekly digest", sender |-> "friend@gmail.com",
                  preview |-> ""]]
StartFiles ==
    {AbsentFile, CorruptFile,
     StoredFile([corrections |-> <<EarlierCorrection>>,
                 statistics |-> ("important_to_ignore" :> 1)])}

\* ModelLearningSystem.__init__ (app.py 67): the feedback file is loaded
InitStore(file) ==
    /\ feedback_file = file
    /\ feedback_data = _load_feedback(file)
    /\ loaded = _load_feedback(file)
    /\ in_flight = {}
    /\ recorded = <<>>
    /\ estimate = NoStats

-----------------------------------------------------------------------------
(* Initial states *)

InitLocals ==
    /\ category = [idx \in Indices |-> None]
    /\ rule_based_messages = <<>>
    /\ ml_messages = <<>>
    /\ categorized = EmptyLists
    /\ pc = "start"
    /\ pos = 0
    /\ worker = "idle"
    /\ worker_result = None
    /\ worker_cause = "none"
    /\ worker_calls = 0
    /\ future_exc = None
    /\ attempts = 0
    /\ faults = {}
    /\ last = NoOutcome
    /\ response = "none"
    /\ best_label = None

\* a plausible slip: the custom model is loaded next to the pipeline
Eager_load_model(zero_shot_loads, custom_loads) ==
    [classifier_pipeline |-> zero_shot_loads, model |-> custom_loads]

\* MLClassifier._load_model and _load_custom_model: the custom model is loaded
\* only when no zero-shot pipeline could be; either load may fail
_load_model(zero_shot_loads, custom_loads) ==
    [classifier_pipeline |-> zero_shot_loads,
     model |-> ~zero_shot_loads /\ custom_loads]

\* app.py 49-64: an MLClassifier with whatever _load_model could load, or the
\* rule-based classifier
Backends ==
    {[classifier |-> "ml",
      classifier_pipeline |-> _load_model(z, c).classifier_pipeline,
      model |-> _load_model(z, c).model] : z \in BOOLEAN, c \in BOOLEAN}
        \cup {[classifier |-> "rule", classifier_pipeline |-> FALSE, model |-> FALSE]}

InitBackend(b) ==
    /\ classifier = b.classifier
    /\ classifier_pipeline = b.classifier_pipeline
    /\ model = b.model

Init ==
    /\ \E b \in Backends : InitBackend(b)
    /\ \E n \in 1..MaxBatch : messages \in [1..n -> BatchPool]
    /\ request = messages
    /\ InitLocals
    /\ InitStore(AbsentFile)

\* one message of the whole input space, served by the rule-based classifier
InitRule ==
    /\ InitBackend([classifier |-> "rule", classifier_pipeline |-> FALSE, model |-> FALSE])
    /\ messages \in [1..1 -> RulePool]
    /\ request = messages
    /\ InitLocals
    /\ InitStore(AbsentFile)

-----------------------------------------------------------------------------
(* Helpers of the batch loops *)

\* a plausible slip: the list is replaced instead of extended
Overwriting_Place(lists, cat, idx) == [lists EXCEPT ![cat] = <<idx>>]

\* categorized[category].append(message)
Place(lists, cat, idx) == [lists EXCEPT ![cat] = Append(@, idx)]

\* a plausible slip: the list is extended but the message's field is not set
Skipping_SetCategory(cats, idx, cat) == cats

\* message.category = category
SetCategory(cats, idx, cat) == [cats EXCEPT ![idx] = cat]

\* a plausible slip: the list is walked from its end
Reversed_LoopMessage(list, done) == list[Len(list) - done]

\* `for message in list` (lines 498 and 517): the message of the iteration
\* that follows `done` completed ones
LoopMessage(list, done) == list[done + 1]

\* an unexpected exception may be injected while fewer than MaxFaults were
CanFault == Cardinality(faults) < MaxFaults

-----------------------------------------------------------------------------
(* MessageClassifier.classify_batch (classifier.py 324-361) *)

\* one iteration of the loop: classify_message, or "important" when it raises
MessageClassifier_classify_batch_step ==
    /\ classifier = "rule"
    /\ pc \in {"start", "rule_batch_loop"}
    /\ LET idx == pos + 1 IN
       /\ idx <= Len(messages)
       /\ \E raised \in {FALSE} \cup {r \in {TRUE} : CanFault} :
            LET cat == IF raised THEN "important" ELSE RuleCategory(Message(idx)) IN
            /\ category' = SetCategory(category, idx, cat)
            /\ categorized' = Place(categorized, cat, idx)
            /\ faults' = IF raised THEN faults \cup {[idx |-> idx, stage |-> "rule"]}
                         ELSE faults
            /\ last' = [idx |-> idx, path |-> "rule_classifier", cause |-> "none",
                        returned |-> IF raised THEN "raised" ELSE cat,
                        late |-> None, category |-> cat,
                        answer |-> "unasked", calls |-> 0]
       /\ pos' = idx
       /\ pc' = "rule_batch_loop"
    /\ UNCHANGED <<learning_vars, best_label>>
    /\ UNCHANGED <<request, response, classifier, classifier_pipeline, model, messages,
                   rule_based_messages, ml_messages, worker, worker_result,
                   worker_cause, worker_calls, future_exc, attempts>>

\* return categorized
MessageClassifier_classify_batch_return ==
    /\ classifier = "rule"
    /\ pc \in {"start", "rule_batch_loop"}
    /\ pos = Len(messages)
    /\ pc' = "done"
    /\ UNCHANGED <<learning_vars, best_label>>
    /\ UNCHANGED <<request, response, classifier, classifier_pipeline, model, messages, category,
                   rule_based_messages, ml_messages, categorized, pos, worker,
                   worker_result, worker_cause, worker_calls, future_exc, attempts, faults, last>>

NextRule ==
    \/ MessageClassifier_classify_batch_step
    \/ MessageClassifier_classify_batch_return

SpecRule == InitRule /\ [][NextRule]_vars

-----------------------------------------------------------------------------
(* MLClassifier: routing, label mapping and the inference worker *)

\* classify_batch line 480: the fast-path routing set
batch_fast_path_patterns ==
    <<"classroom.google.com", ".edu", "teacher", "professor", "instructor",
      "faculty", "staff">>
BatchFastPath(sender) == AnyIn(batch_fast_path_patterns, Lower(sender))
\* the batch routing answer for every sender of the input space
BatchTable == [a \in AllSenders |-> BatchFastPath(a)]
IsBatchFast(message) == BatchTable[message.sender]

\* classify_message lines 409-419
dispatcher_sender_patterns ==
    <<"classroom.google.com", ".edu", "teacher", "professor", "instructor",
      "faculty", "staff">>
DispatcherFastPath(sender) == AnyIn(dispatcher_sender_patterns, Lower(sender))
\* the dispatcher's routing answer for every sender of the input space
DispatcherTable == [a \in AllSenders |-> DispatcherFastPath(a)]
IsDispatcherFast(message) == DispatcherTable[message.sender]

\* a plausible slip: the pre-filter takes over an entry of the rule engine's
\* important_sender_patterns that the fast path does not have
Wider_zero_shot_sender_patterns ==
    <<"classroom.google.com", "@.edu", "teacher@", "professor@", "instructor@",
      "faculty@", "staff@", "admin@">>

\* _classify_with_zero_shot lines 184-198
zero_shot_sender_patterns ==
    <<"classroom.google.com", "@.edu", "teacher@", "professor@", "instructor@",
      "faculty@", "staff@">>
zero_shot_announcement_keywords ==
    <<"announcement", "posted", "shared", "new post", "new assignment">>
zero_shot_reply_keywords ==
    <<"question", "?", "please", "request", "urgent", "reply", "respond",
      "deadline", "due", "submit">>

\* the pre-filter of _classify_with_zero_shot (lines 177-213): a category for
\* an important sender, None when the backend is to be asked
ZeroShotPrefilter(message) ==
    LET sender_lower == Lower(message.sender)
        combined_text == CombinedText(message)
        is_no_reply == Contains(sender_lower, "no-reply") \/ Contains(sender_lower, "noreply")
        is_announcement == AnyIn(zero_shot_announcement_keywords, combined_text)
    IN  IF AnyIn(zero_shot_sender_patterns, sender_lower)
        THEN IF is_no_reply /\ is_announcement THEN "important"
             ELSE IF AnyIn(zero_shot_reply_keywords, combined_text) THEN "needs_reply"
             ELSE "important"
        ELSE None

\* the pre-filter's answer for every message of the input space
PrefilterTable == [m \in AllMessages |-> ZeroShotPrefilter(m)]
Prefilter(message) == PrefilterTable[message]

\* candidate_labels: the labels the zero-shot pipeline chooses its best from
candidate_labels == {"needs reply", "important", "ignore"}

\* a plausible slip: a label that names no category is important, the default
\* of every other path
Defaulting_MapLabel(label) ==
    IF Contains(Lower(label), "needs reply") THEN "needs_reply"
    ELSE IF Contains(Lower(label), "ignore") THEN "ignore"
    ELSE "important"

\* lines 236-241: the best label mapped to a category
MapLabel(label) ==
    IF Contains(Lower(label), "needs reply") THEN "needs_reply"
    ELSE IF Contains(Lower(label), "important") THEN "important"
    ELSE "ignore"

\* category_map of MLClassifier.__init__, default "important"
category_map(predicted_class) ==
    CASE predicted_class = 0 -> "needs_reply"
      [] predicted_class = 1 -> "important"
      [] predicted_class = 2 -> "ignore"
      [] OTHER -> "important"

\* the exceptions a backend call may raise: an ordinary one, a memory-class one
BackendErrors == {"error", "memory"}

\* a value the worker computes, why, and the backend calls it took
Outcome(result, cause, calls) == [result |-> result, cause |-> cause, calls |-> calls]

\* _classify_with_zero_shot lines 229-245: one call of the pipeline; its best
\* label is mapped, any exception (memory-class or not) is caught and gives None
ZeroShotCall(message) ==
    {Outcome(MapLabel(l), "label", 1) : l \in candidate_labels}
        \cup {Outcome(None, e, 1) : e \in BackendErrors}

\* _classify_with_zero_shot: the pre-filter answers, or the pipeline is called
_classify_with_zero_shot(message) ==
    IF Prefilter(message) # None
    THEN {Outcome(Prefilter(message), "prefilter", 0)}
    ELSE ZeroShotCall(message)

\* _classify_with_custom_model lines 247-280: None when no model is loaded,
\* else one forward pass of the model; any exception is caught and gives None
_classify_with_custom_model(message) ==
    IF ~model THEN {Outcome(None, "unloaded", 0)}
    ELSE {Outcome(category_map(c), "label", 1) : c \in 0..2}
            \cup {Outcome(None, e, 1) : e \in BackendErrors}

\* a plausible slip: ml_result starts as a default category instead of None
Defaulting_MlOutcomes(message) == {Outcome("important", "unloaded", 0)}

\* _ml_classify (lines 335-368): every value the worker can return for the
\* message.  The pipeline is tried first when it is loaded; when that gave
\* None and a custom model is loaded, the custom model is tried.
MlOutcomes(message) ==
    LET first == IF classifier_pipeline THEN _classify_with_zero_shot(message)
                 ELSE {Outcome(None, "unloaded", 0)}
    IN  UNION {IF z.result = None /\ model
               THEN {Outcome(c.result, c.cause, z.calls + c.calls) :
                        c \in _classify_with_custom_model(message)}
               ELSE {z} : z \in first}

\* the worker reaches a call of the inference backend for the message
CallsBackend(message) == \E o \in MlOutcomes(message) : o.calls >= 1

\* a plausible slip: the executor is shut down with wait=False, the request
\* thread goes on while the worker runs
NoWait_shutdown_wait(worker_state) == TRUE

\* ThreadPoolExecutor.__exit__ (line 372) is shutdown(wait=True): it returns
\* once the worker thread has finished
shutdown_wait(worker_state) == worker_state = "finished"

\* a plausible slip: the late result of a timed-out attempt is used
LateResult_MlTimeoutResult(exc, result) == result

\* _classify_with_ml_timeout lines 371-388: the value returned once the with
\* block is left; None for a TimeoutError (or any other exception)
MlTimeoutResult(exc, result) == IF exc = None THEN result ELSE None

RECURSIVE Sticky_Routed(_, _)
\* a plausible slip: the routing flag is not reset between messages, so every
\* message after the first fast-path sender is routed to the rules as well
Sticky_Routed(k, fast) ==
    IF k = 0 THEN <<>>
    ELSE IF (\E j \in 1..k : IsBatchFast(Message(j))) = fast
         THEN Append(Sticky_Routed(k - 1, fast), k)
    ELSE Sticky_Routed(k - 1, fast)

RECURSIVE Routed(_, _)
\* lines 477-483: the first k messages of the batch whose sender is (fast =
\* TRUE) or is not on the fast path, in input order
Routed(k, fast) ==
    IF k = 0 THEN <<>>
    ELSE IF IsBatchFast(Message(k)) = fast THEN Append(Routed(k - 1, fast), k)
    ELSE Routed(k - 1, fast)

\* a plausible slip: the messages beyond the cap are dropped
Dropping_CapRuleBased(rule_based, ml) == rule_based

\* lines 486-490: rule_based_messages.extend(ml_messages[10:])
CapRuleBased(rule_based, ml) ==
    IF Len(ml) > ML_CLASSIFICATION_CAP
    THEN rule_based \o SubSeq(ml, ML_CLASSIFICATION_CAP + 1, Len(ml))
    ELSE rule_based

\* a plausible slip: no cap on the inference-eligible messages
Uncapped_CapMl(ml) == ml

\* lines 486-490: ml_messages = ml_messages[:10]
CapMl(ml) ==
    IF Len(ml) > ML_CLASSIFICATION_CAP
    THEN SubSeq(ml, 1, ML_CLASSIFICATION_CAP)
    ELSE ml

-----------------------------------------------------------------------------
(* MLClassifier.classify_batch (ml_classifier.py 447-527) *)

\* lines 477-483: the two lists before the cap
FastRouted == Routed(Len(messages), TRUE)
InferenceEligible == Routed(Len(messages), FALSE)

\* lines 463-495: partition by sender, cap the inference-eligible list
classify_batch_partition ==
    /\ classifier = "ml"
    /\ pc = "start"
    /\ rule_based_messages' = CapRuleBased(FastRouted, InferenceEligible)
    /\ ml_messages' = CapMl(InferenceEligible)
    /\ pc' = "ml_loop"
    /\ pos' = 0
    /\ UNCHANGED <<learning_vars, best_label>>
    /\ UNCHANGED <<request, response, classifier, classifier_pipeline, model, messages, category,
                   categorized, worker, worker_result, worker_cause, worker_calls, future_exc,
                   attempts, faults, last>>

\* what the specification's prose describes: "important" on any failure
Important_FallbackOnError(rule_raises, rule_category) == "important"

\* lines 504-514: classify_message raised in the first loop; the rule engine
\* is asked, and only when it raises as well is the message "important"
FallbackOnError(rule_raises, rule_category) ==
    IF rule_raises THEN "important" ELSE rule_category

\* lines 501-514: the body of the first loop once classify_message has
\* returned result, or has raised (then the rule engine is asked, and when it
\* raises too the message is "important")
CompleteMl(idx, result, path, cause, late, answer, calls) ==
    \E fault \in {"none"} \cup {f \in {"dispatcher", "both"} : CanFault} :
        LET cat == IF fault = "none" THEN result
                   ELSE FallbackOnError(fault = "both", RuleCategory(Message(idx)))
        IN  /\ category' = SetCategory(category, idx, cat)
            /\ categorized' = Place(categorized, cat, idx)
            /\ faults' = IF fault = "none" THEN faults
                         ELSE faults \cup {[idx |-> idx, stage |-> fault]}
            /\ last' = [idx |-> idx, path |-> path, cause |-> cause,
                        returned |-> IF fault = "none" THEN result ELSE "raised",
                        late |-> late, category |-> cat,
                        answer |-> answer, calls |-> calls]
            /\ pos' = pos + 1
            /\ pc' = "ml_loop"

\* line 501 into classify_message (403-432) and _classify_with_ml_timeout
\* (372-373): the fast path answers at once, any other message is submitted
\* to a fresh one-worker executor
ml_loop_submit ==
    /\ classifier = "ml"
    /\ pc = "ml_loop"
    /\ pos < Len(ml_messages)
    /\ LET idx == LoopMessage(ml_messages, pos) IN
       IF IsDispatcherFast(Message(idx))
       THEN /\ CompleteMl(idx, RuleCategory(Message(idx)), "fast_path", "none", None,
                            "unasked", 0)
            /\ UNCHANGED <<worker, attempts>>
       ELSE /\ worker' = "running"
            /\ attempts' = attempts + 1
            /\ pc' = "future_wait"
            /\ last' = NoOutcome
            /\ UNCHANGED <<category, categorized, faults, pos>>
    /\ UNCHANGED <<learning_vars, best_label>>
    /\ UNCHANGED <<request, response, classifier, classifier_pipeline, model, messages,
                   rule_based_messages, ml_messages, worker_result,
                   worker_cause, worker_calls, future_exc>>

\* the worker thread runs _ml_classify to its end
_ml_classify ==
    /\ worker = "running"
    /\ \E o \in MlOutcomes(Message(LoopMessage(ml_messages, pos))) :
          /\ worker_result' = o.result
          /\ worker_cause' = o.cause
          /\ worker_calls' = o.calls
    /\ worker' = "finished"
    /\ UNCHANGED <<learning_vars, best_label>>
    /\ UNCHANGED <<request, response, classifier, classifier_pipeline, model, messages, category,
                   rule_based_messages, ml_messages, categorized, pc, pos,
                   future_exc, attempts, faults, last>>

\* the call of the inference backend never returns
backend_hang ==
    /\ worker = "running"
    /\ CallsBackend(Message(LoopMessage(ml_messages, pos)))
    /\ worker' = "hung"
    /\ worker_calls' = worker_calls + 1
    /\ UNCHANGED <<learning_vars, best_label>>
    /\ UNCHANGED <<request, response, classifier, classifier_pipeline, model, messages, category,
                   rule_based_messages, ml_messages, categorized, pc, pos,
                   worker_result, worker_cause, future_exc, attempts, faults, last>>

\* line 374: future.result returns the worker's value within the deadline
future_result ==
    /\ pc = "future_wait"
    /\ worker = "finished"
    /\ future_exc' = None
    /\ pc' = "executor_exit"
    /\ UNCHANGED <<learning_vars, best_label>>
    /\ UNCHANGED <<request, response, classifier, classifier_pipeline, model, messages, category,
                   rule_based_messages, ml_messages, categorized, pos, worker,
                   worker_result, worker_cause, worker_calls, attempts, faults, last>>

\* line 374: ML_CLASSIFICATION_TIMEOUT elapses with the worker still busy,
\* future.result raises TimeoutError inside the with block
future_timeout ==
    /\ pc = "future_wait"
    /\ worker \in {"running", "hung"}
    /\ future_exc' = "TimeoutError"
    /\ pc' = "executor_exit"
    /\ UNCHANGED <<learning_vars, best_label>>
    /\ UNCHANGED <<request, response, classifier, classifier_pipeline, model, messages, category,
                   rule_based_messages, ml_messages, categorized, pos, worker,
                   worker_result, worker_cause, worker_calls, attempts, faults, last>>

\* line 372: leaving the with block is ThreadPoolExecutor.__exit__, that is
\* shutdown(wait=True): it joins the worker thread.  Then lines 375-388 give
\* ml_result, classify_message (432-445) picks the category and the loop
\* body (502-514) stores it.
executor_exit ==
    /\ pc = "executor_exit"
    /\ shutdown_wait(worker)
    /\ LET idx == LoopMessage(ml_messages, pos)
           ml_result == MlTimeoutResult(future_exc, worker_result)
           timed_out == future_exc # None
       IN  CompleteMl(idx,
                      IF ml_result # None THEN ml_result ELSE RuleCategory(Message(idx)),
                      IF ml_result # None THEN "inference" ELSE "fallback",
                      IF timed_out THEN "timeout" ELSE worker_cause,
                      IF timed_out THEN worker_result ELSE None,
                      ml_result, worker_calls)
    /\ worker' = "idle"
    /\ worker_result' = None
    /\ worker_cause' = "none"
    /\ worker_calls' = 0
    /\ future_exc' = None
    /\ UNCHANGED <<learning_vars, best_label>>
    /\ UNCHANGED <<request, response, classifier, classifier_pipeline, model, messages,
                   rule_based_messages, ml_messages, attempts>>

\* the first loop is exhausted, the second starts (line 517)
ml_loop_end ==
    /\ classifier = "ml"
    /\ pc = "ml_loop"
    /\ pos = Len(ml_messages)
    /\ pc' = "rule_loop"
    /\ pos' = 0
    /\ UNCHANGED <<learning_vars, best_label>>
    /\ UNCHANGED <<request, response, classifier, classifier_pipeline, model, messages, category,
                   rule_based_messages, ml_messages, categorized, worker,
                   worker_result, worker_cause, worker_calls, future_exc, attempts, faults, last>>

\* lines 517-525: one rule-routed message
rule_loop_step ==
    /\ pc = "rule_loop"
    /\ pos < Len(rule_based_messages)
    /\ LET idx == LoopMessage(rule_based_messages, pos) IN
       \E raised \in {FALSE} \cup {r \in {TRUE} : CanFault} :
            LET cat == IF raised THEN "important" ELSE RuleCategory(Message(idx)) IN
            /\ category' = SetCategory(category, idx, cat)
            /\ categorized' = Place(categorized, cat, idx)
            /\ faults' = IF raised THEN faults \cup {[idx |-> idx, stage |-> "rule"]}
                         ELSE faults
            /\ last' = [idx |-> idx, path |-> "rule_routed", cause |-> "none",
                        returned |-> IF raised THEN "raised" ELSE cat,
                        late |-> None, category |-> cat,
                        answer |-> "unasked", calls |-> 0]
    /\ pos' = pos + 1
    /\ UNCHANGED <<learning_vars, best_label>>
    /\ UNCHANGED <<request, response, classifier, classifier_pipeline, model, messages,
                   rule_based_messages, ml_messages, pc, worker, worker_result,
                   worker_cause, worker_calls, future_exc, attempts>>

\* line 527: return categorized
classify_batch_return ==
    /\ pc = "rule_loop"
    /\ pos = Len(rule_based_messages)
    /\ pc' = "done"
    /\ UNCHANGED <<learning_vars, best_label>>
    /\ UNCHANGED <<request, response, classifier, classifier_pipeline, model, messages, category,
                   rule_based_messages, ml_messages, categorized, pos, worker,
                   worker_result, worker_cause, worker_calls, future_exc, attempts, faults, last>>

\* the steps of MLClassifier.classify_batch and of its worker
NextDispatch ==
    \/ classify_batch_partition
    \/ ml_loop_submit
    \/ _ml_classify
    \/ future_result
    \/ future_timeout
    \/ executor_exit
    \/ ml_loop_end
    \/ rule_loop_step
    \/ classify_batch_return

NextMl == NextDispatch \/ backend_hang

Next == NextMl \/ NextRule

Spec == Init /\ [][Next]_vars

\* long batches, more inference-eligible messages than the cap, classified in
\* rule-only mode (no inference backend loaded)
LongFiller == Msg("friend@gmail.com", "Hello", "")
LongFast == Msg("Teacher@School.EDU", "Please confirm attendance?", "")

InitCap ==
    /\ InitBackend([classifier |-> "ml", classifier_pipeline |-> FALSE, model |-> FALSE])
    /\ \E n \in (ML_CLASSIFICATION_CAP + 1)..MaxLong :
       \E at \in 0..n :
          messages = [idx \in 1..n |-> IF idx = at THEN LongFast ELSE LongFiller]
    /\ request = messages
    /\ InitLocals
    /\ InitStore(AbsentFile)

\* with no backend loaded no backend call can hang
SpecCap == InitCap /\ [][NextDispatch]_vars

\* one message of the routing input space, on any backend
InitRoute ==
    /\ \E b \in Backends : InitBackend(b)
    /\ messages \in [1..1 -> RoutePool]
    /\ request = messages
    /\ InitLocals
    /\ InitStore(AbsentFile)

SpecRoute == InitRoute /\ [][Next]_vars

\* short batches on every backend together with the long batches
SpecAll == (Init \/ InitCap) /\ [][Next]_vars

-----------------------------------------------------------------------------
(* _classify_with_zero_shot with a pipeline that may answer any label *)

\* best labels: the three candidate labels, and labels another candidate list
\* or another pipeline could give: upper case, two category names in one,
\* a category name inside a longer phrase, no category name, the empty label
LabelPool ==
    {"needs reply", "important", "ignore", "Needs Reply", "important, needs reply",
     "not important", "spam", ""}

\* the mapping's answer for every label of the pool
LabelTable == [l \in LabelPool |-> MapLabel(l)]

\* lines 230-233: the pipeline returns, best_label = result['labels'][0]
zero_shot_best_label ==
    /\ worker = "running"
    /\ classifier_pipeline
    /\ Prefilter(Message(LoopMessage(ml_messages, pos))) = None
    /\ \E l \in LabelPool : best_label' = l
    /\ worker' = "labelled"
    /\ worker_calls' = 1
    /\ UNCHANGED learning_vars
    /\ UNCHANGED <<request, response, classifier, classifier_pipeline, model, messages, category,
                   rule_based_messages, ml_messages, categorized, pc, pos,
                   worker_result, worker_cause, future_exc, attempts, faults, last>>

\* lines 235-241: the best label is mapped to a category and returned
map_best_label ==
    /\ worker = "labelled"
    /\ worker_result' = LabelTable[best_label]
    /\ worker_cause' = "label"
    /\ worker' = "finished"
    /\ UNCHANGED <<learning_vars, best_label>>
    /\ UNCHANGED <<request, response, classifier, classifier_pipeline, model, messages, category,
                   rule_based_messages, ml_messages, categorized, pc, pos,
                   worker_calls, future_exc, attempts, faults, last>>

\* batches of one or two messages classified with the zero-shot pipeline loaded
InitLabel ==
    /\ InitBackend([classifier |-> "ml", classifier_pipeline |-> TRUE, model |-> FALSE])
    /\ \E n \in 1..2 : messages \in [1..n -> BatchPool]
    /\ request = messages
    /\ InitLocals
    /\ InitStore(AbsentFile)

\* the batch steps with the pipeline call and the mapping as steps of their own
NextLabel ==
    \/ classify_batch_partition
    \/ ml_loop_submit
    \/ zero_shot_best_label
    \/ map_best_label
    \/ future_result
    \/ future_timeout
    \/ executor_exit
    \/ ml_loop_end
    \/ rule_loop_step
    \/ classify_batch_return

SpecLabel == InitLabel /\ [][NextLabel]_vars

-----------------------------------------------------------------------------
(* app.py: the /classify endpoint, request validation included *)

MaxApiBatch == 2     \* longest request of InitApi besides the oversized one

subject_max_length == 500
sender_max_length == 200
preview_max_length == 1000
messages_max_length == 100

Whitespace == {" ", "\t", "\n", "\r"}

RECURSIVE LStrip(_)
\* str.lstrip()
LStrip(s) ==
    IF Len(s) = 0 THEN ""
    ELSE IF SubSeq(s, 1, 1) \in Whitespace THEN LStrip(SubSeq(s, 2, Len(s)))
    ELSE s

RECURSIVE RStrip(_)
\* str.rstrip()
RStrip(s) ==
    IF Len(s) = 0 THEN ""
    ELSE IF SubSeq(s, Len(s), Len(s)) \in Whitespace THEN RStrip(SubSeq(s, 1, Len(s) - 1))
    ELSE s

\* str.strip()
Strip(s) == RStrip(LStrip(s))

RECURSIVE Repeat(_, _)
\* the string c * n
Repeat(c, n) ==
    IF n = 0 THEN ""
    ELSE IF n % 2 = 0 THEN LET half == Repeat(c, n \div 2) IN half \o half
    ELSE c \o Repeat(c, n - 1)

\* Message.subject / Message.sender (app.py 82-93): the length constraints of
\* the Field, then validate_not_empty
ValidRequiredField(v, max_length) ==
    /\ Len(v) >= 1
    /\ Len(v) <= max_length
    /\ Strip(v) # ""

\* Message (app.py 79-93)
ValidMessage(raw) ==
    /\ ValidRequiredField(raw.subject, subject_max_length)
    /\ ValidRequiredField(raw.sender, sender_max_length)
    /\ Len(raw.preview) <= preview_max_length

\* validate_not_empty returns v.strip(): the message the endpoint receives
ValidatedMessage(raw) ==
    [sender |-> Strip(raw.sender), subject |-> Strip(raw.subject),
     preview |-> raw.preview]

\* the messages requests are built from: three that validate (one of them
\* only after trimming) and six that do not
GoodRaw ==
    {Msg("friend@gmail.com", "Lunch tomorrow?", "let me know"),
     Msg("  Teacher@School.EDU ", " Hello\n", ""),
     Msg("newsletter@deals.com", "50% off sale this week", "")}
BadRaw ==
    {Msg("friend@gmail.com", "   ", ""),
     Msg("friend@gmail.com", "", ""),
     Msg(" \t", "Hello", ""),
     Msg("friend@gmail.com", Repeat("a", subject_max_length + 1), ""),
     Msg(Repeat("a", sender_max_length + 1), "Hello", ""),
     Msg("friend@gmail.com", "Hello", Repeat("a", preview_max_length + 1))}
RawPool == GoodRaw \cup BadRaw

\* validation and its result for every message of the pool
ValidTable == [raw \in RawPool |-> ValidMessage(raw)]
ValidatedTable ==
    [raw \in RawPool |-> IF ValidMessage(raw) THEN ValidatedMessage(raw) ELSE raw]

\* ClassificationRequest (app.py 95-106)
ValidRequest(req) ==
    /\ Len(req) >= 1
    /\ Len(req) <= messages_max_length
    /\ \A k \in 1..Len(req) : ValidTable[req[k]]

\* a request of one message too many, each of them valid
OversizedRequest ==
    [k \in 1..(messages_max_length + 1) |-> Msg("friend@gmail.com", "Lunch tomorrow?", "let me know")]

\* a request arrives: any backend, nothing validated yet
InitApi ==
    /\ \E b \in Backends : InitBackend(b)
    /\ \/ request = <<>>
       \/ request = OversizedRequest
       \/ \E n \in 1..MaxApiBatch : request \in [1..n -> RawPool]
    /\ messages = <<>>
    /\ category = <<>>
    /\ rule_based_messages = <<>>
    /\ ml_messages = <<>>
    /\ categorized = EmptyLists
    /\ pc = "received"
    /\ pos = 0
    /\ worker = "idle"
    /\ worker_result = None
    /\ worker_cause = "none"
    /\ worker_calls = 0
    /\ future_exc = None
    /\ attempts = 0
    /\ faults = {}
    /\ last = NoOutcome
    /\ response = "none"
    /\ best_label = None
    /\ InitStore(AbsentFile)

\* FastAPI validates the body against ClassificationRequest before
\* classify_messages runs: a failure is answered 422, else lines 176-201 build
\* the classifier's messages and classify_batch is entered
validate_request ==
    /\ pc = "received"
    /\ IF ValidRequest(request)
       THEN /\ messages' = [k \in 1..Len(request) |-> ValidatedTable[request[k]]]
            /\ category' = [k \in 1..Len(request) |-> None]
            /\ pc' = "start"
            /\ UNCHANGED response
       ELSE /\ response' = "validation_error"
            /\ pc' = "rejected"
            /\ UNCHANGED <<messages, category>>
    /\ UNCHANGED <<learning_vars, best_label>>
    /\ UNCHANGED <<request, classifier, classifier_pipeline, model,
                   rule_based_messages, ml_messages, categorized, pos, worker,
                   worker_result, worker_cause, worker_calls, future_exc,
                   attempts, faults, last>>

\* classify_messages lines 201-244: classify_batch has returned, the three
\* lists are copied into the response
classify_messages_respond ==
    /\ pc = "done"
    /\ response = "none"
    /\ response' = "success"
    /\ pc' = "responded"
    /\ UNCHANGED <<learning_vars, best_label>>
    /\ UNCHANGED <<request, classifier, classifier_pipeline, model, messages,
                   category, rule_based_messages, ml_messages, categorized, pos,
                   worker, worker_result, worker_cause, worker_calls,
                   future_exc, attempts, faults, last>>

NextApi == validate_request \/ classify_messages_respond \/ Next

SpecApi == InitApi /\ [][NextApi]_vars

-----------------------------------------------------------------------------
(* app.py: the /correction endpoint on the single-threaded event loop *)

CorrectionIds == {"m1", "m2"}
\* the (predicted, correct) pairs of the requests: two mistakes, one of them
\* already counted in the stored file, and a correct prediction
CorrectionPairs ==
    {<<"important", "ignore">>, <<"ignore", "needs_reply">>,
     <<"needs_reply", "needs_reply">>}
CorrectionSnapshot == Msg("friend@gmail.com", "Lunch tomorrow?", "let me know")

\* requests are numbered in arrival order
Arrivals == Len(recorded) + Cardinality(in_flight)

\* datetime.utcnow(): later than every timestamp already in the store
Now == Len(loaded.corrections) + Len(recorded) + 1

\* a validated CorrectionRequest arrives and waits for the event loop
correction_request ==
    /\ Arrivals < MaxCorrections
    /\ \E id \in CorrectionIds, pair \in CorrectionPairs :
          in_flight' = in_flight \cup
              {[rid |-> Arrivals + 1, message_id |-> id, predicted |-> pair[1],
                correct |-> pair[2], message |-> CorrectionSnapshot]}
    /\ UNCHANGED <<feedback_data, feedback_file, recorded, loaded, estimate>>
    /\ UNCHANGED <<request, response, classifier, classifier_pipeline, model,
                   messages, category, rule_based_messages, ml_messages,
                   categorized, pc, pos, worker, worker_result, worker_cause,
                   worker_calls, future_exc, attempts, faults, last, best_label>>

\* app.py 294-319 into ModelLearningSystem.record_correction (55-96): the
\* handler is an `async def` without an await, so the event loop runs it to
\* its end before it starts another; it appends, counts and saves
record_correction ==
    /\ \E req \in in_flight :
          /\ feedback_data' = RecordCorrection(feedback_data, req, Now)
          /\ feedback_file' \in
                SaveOutcomes(feedback_file, RecordCorrection(feedback_data, req, Now))
          /\ in_flight' = in_flight \ {req}
          /\ recorded' = Append(recorded, req)
    /\ UNCHANGED <<loaded, estimate>>
    /\ UNCHANGED <<request, response, classifier, classifier_pipeline, model,
                   messages, category, rule_based_messages, ml_messages,
                   categorized, pc, pos, worker, worker_result, worker_cause,
                   worker_calls, future_exc, attempts, faults, last, best_label>>

\* the process after startup, no batch under classification
InitLearn ==
    /\ \E file \in StartFiles : InitStore(file)
    /\ InitBackend([classifier |-> "rule", classifier_pipeline |-> FALSE, model |-> FALSE])
    /\ messages = <<>>
    /\ request = <<>>
    /\ InitLocals

NextLearn == correction_request \/ record_correction

SpecLearn == InitLearn /\ [][NextLearn]_vars

-----------------------------------------------------------------------------
(* app.py: the /model-stats endpoint over a store of many corrections *)

MaxLog == 52         \* longest corrections log of InitStats
MaxLead == 3         \* most right predictions ahead of the wrong ones in it

\* a correction of the log: the prediction was right, or was wrong
LoggedCorrection(k, right) ==
    [message_id |-> "m0", timestamp |-> k, predicted |-> "important",
     correct |-> IF right THEN "important" ELSE "ignore",
     message |-> [subject |-> "Weekly digest", sender |-> "friend@gmail.com",
                  preview |-> ""]]

\* feedback data as record_correction leaves it after n corrections of which
\* those numbered from + 1 .. to were wrong predictions
LoggedData(n, from, to) ==
    [corrections |-> [k \in 1..n |-> LoggedCorrection(k, ~(from < k /\ k <= to))],
     statistics |->
        [key \in {"important_to_ignore" : x \in {1} \ {y \in {1} : to = from}}
                    \cup {"important_to_important" : x \in {1} \ {y \in {1} : to - from = n}}
            |-> IF key = "important_to_ignore" THEN to - from ELSE n - (to - from)]]

\* the process after startup with a feedback file of up to MaxLog corrections,
\* the wrong predictions in one run after at most MaxLead right ones
InitStats ==
    /\ \E n \in 0..MaxLog : \E from \in 0..(IF n < MaxLead THEN n ELSE MaxLead) :
       \E to \in from..n :
          LET data == LoggedData(n, from, to) IN
          /\ feedback_file = StoredFile(data)
          /\ feedback_data = _load_feedback(StoredFile(data))
          /\ loaded = _load_feedback(StoredFile(data))
    /\ in_flight = {}
    /\ recorded = <<>>
    /\ estimate = NoStats
    /\ InitBackend([classifier |-> "rule", classifier_pipeline |-> FALSE, model |-> FALSE])
    /\ messages = <<>>
    /\ request = <<>>
    /\ InitLocals

\* app.py 321-336: GET /model-stats asks the learning system for its estimate
get_model_stats ==
    /\ estimate' = get_accuracy_estimate(feedback_data)
    /\ UNCHANGED <<feedback_data, feedback_file, in_flight, recorded, loaded>>
    /\ UNCHANGED <<request, response, classifier, classifier_pipeline, model,
                   messages, category, rule_based_messages, ml_messages,
                   categorized, pc, pos, worker, worker_result, worker_cause,
                   worker_calls, future_exc, attempts, faults, last, best_label>>

NextStats == get_model_stats

SpecStats == InitStats /\ [][NextStats]_vars

-----------------------------------------------------------------------------
(* Properties *)

\* the rule engine's sender predicates for every sender of the input space
ImportantTable == [a \in AllSenders |-> _is_important_sender(a)]
MarketingTable == [a \in AllSenders |-> _is_marketing_sender(a)]

Occurrences(seq, idx) == Cardinality({k \in 1..Len(seq) : seq[k] = idx})
TimesListed(idx) ==
    Occurrences(categorized.needs_reply, idx)
        + Occurrences(categorized.important, idx)
        + Occurrences(categorized.ignore, idx)
TotalListed ==
    Len(categorized.needs_reply) + Len(categorized.important) + Len(categorized.ignore)
Faulted(idx) == \E f \in faults : f.idx = idx

\* C1: no message is ever in two output lists or twice in one, and when
\* classify_batch returns (either classifier) every message of the batch is in
\* exactly one of needs_reply / important / ignore, the sizes summing to the
\* batch size.
C1_Partition ==
    /\ \A idx \in Indices : TimesListed(idx) <= 1
    /\ pc = "done" =>
          /\ \A idx \in Indices : TimesListed(idx) = 1
          /\ TotalListed = Len(messages)

\* a hybrid batch of three messages returned with all three lists filled
C1_Witness ==
    /\ pc = "done"
    /\ classifier = "ml"
    /\ Len(messages) = 3
    /\ Len(categorized.needs_reply) = 1
    /\ Len(categorized.important) = 1
    /\ Len(categorized.ignore) = 1

\* C2: the hybrid classify_batch never places in ignore a message whose
\* sender satisfies the rule engine's _is_important_sender.
C2_ImportantSenderNeverIgnored ==
    classifier = "ml" =>
        \A k \in 1..Len(categorized.ignore) :
            ~ImportantTable[Message(categorized.ignore[k]).sender]

\* C3: once the deadline of an inference attempt has expired,
\* _classify_with_ml_timeout can return at once, whether or not the worker
\* has finished.
C3_ReturnsOnExpiry ==
    (pc = "executor_exit" /\ future_exc = "TimeoutError") => ENABLED executor_exit

\* C4: classify_batch is never blocked: until it has returned, some step of
\* the batch can always be taken, also when the inference backend hangs.
C4_NeverBlocked == pc = "done" \/ ENABLED Next

\* C5: for a message that is not on the fast path, when the inference attempt
\* timed out, raised (ordinary or memory error) or found no backend loaded,
\* classify_message returns the rule engine's category for the message, a
\* member of the closed set, whatever the abandoned worker returned late.
C5_FallbackIsRuleEngine ==
    (/\ last.path \in {"inference", "fallback"}
     /\ last.cause \in {"timeout", "error", "memory", "unloaded"}
     /\ last.returned # "raised")
        => /\ last.returned = RuleCategory(Message(last.idx))
           /\ last.returned \in Categories

\* a timed-out attempt whose worker later returned another category than the
\* rule engine's
C5_Witness ==
    /\ last.cause = "timeout"
    /\ last.late \in Categories
    /\ last.returned \in Categories
    /\ last.late # last.returned

Min(a, b) == IF a <= b THEN a ELSE b
Returned == last.idx # 0 /\ last.returned # "raised"
LastSender == Message(last.idx).sender
LastText == CombinedText(Message(last.idx))

\* C6: the hybrid classify_batch submits at most 10 messages to the inference
\* path: the inference list is the first 10 inference-eligible messages, the
\* rest follows the fast-path messages in the rule-routed list and gets the
\* rule engine's category; a returned batch has made min(eligible, 10)
\* inference attempts.
C6_CapEnforced ==
    /\ attempts <= ML_CLASSIFICATION_CAP
    /\ pc # "start" =>
          /\ ml_messages =
                SubSeq(InferenceEligible, 1,
                       Min(Len(InferenceEligible), ML_CLASSIFICATION_CAP))
          /\ rule_based_messages =
                FastRouted \o SubSeq(InferenceEligible, ML_CLASSIFICATION_CAP + 1,
                                     Len(InferenceEligible))
    /\ (last.path = "rule_routed" /\ ~Faulted(last.idx)) =>
          last.category = RuleCategory(Message(last.idx))
    /\ pc = "done" =>
          attempts = Min(Len(InferenceEligible), ML_CLASSIFICATION_CAP)

\* a returned batch of 15 inference-eligible messages: 10 attempts, 5 rule-routed
C6_Witness ==
    /\ pc = "done"
    /\ Len(InferenceEligible) = 15
    /\ attempts = 10
    /\ Len(rule_based_messages) = 5
    /\ TotalListed = 15

\* C7 as stated: a message whose classification raised is always "important".
C7_FailureGivesImportant ==
    \A f \in faults : category[f.idx] = "important"

\* C7 amended: a message whose classification raised is "important" in the
\* rule-routed loop and in MessageClassifier.classify_batch; in the
\* inference-eligible loop it gets the rule engine's category, and
\* "important" only when the rule engine raises too.  It is listed once, and
\* the returned batch has a category for every message.
C7_FailureIsolation ==
    /\ \A f \in faults :
          /\ category[f.idx] =
                (IF f.stage = "dispatcher" THEN RuleCategory(Message(f.idx))
                 ELSE "important")
          /\ TimesListed(f.idx) = 1
    /\ pc = "done" =>
          \A idx \in Indices : category[idx] \in Categories /\ TimesListed(idx) = 1

\* a returned batch of three whose first inference-eligible message raised in
\* the dispatcher and was given needs_reply by the rule engine
C7_Witness ==
    /\ pc = "done"
    /\ Len(messages) = 3
    /\ Len(ml_messages) >= 2
    /\ \E f \in faults :
          /\ f.stage = "dispatcher"
          /\ f.idx = ml_messages[1]
          /\ category[f.idx] = "needs_reply"

\* C8: the rule engine never returns ignore for a sender that satisfies
\* _is_important_sender, whatever the subject and preview and also when the
\* sender matches the marketing patterns.
C8_ImportantSenderNotIgnored ==
    (Returned /\ last.path = "rule_classifier" /\ ImportantTable[LastSender])
        => last.returned \in {"needs_reply", "important"}

\* an important sender that is a marketing sender too, with ignore keywords
\* in the text
C8_Witness ==
    /\ Returned
    /\ last.path = "rule_classifier"
    /\ ImportantTable[LastSender]
    /\ MarketingTable[LastSender]
    /\ AnyIn(ignore_keywords, LastText)
    /\ last.returned = "important"

\* C9: for a sender neither important nor marketing, a text with a contextual
\* ignore keyword and a marketing co-indicator is classified ignore.
C9_ContextualIgnore ==
    (/\ Returned
     /\ last.path = "rule_classifier"
     /\ ~ImportantTable[LastSender]
     /\ ~MarketingTable[LastSender]
     /\ AnyIn(contextual_ignore_keywords, LastText)
     /\ AnyIn(marketing_indicators, LastText))
        => last.returned = "ignore"

\* C10: the rule engine classifies ignore every message of a marketing sender
\* that is not an important sender, whatever its text.
C10_MarketingSenderIgnored ==
    (/\ Returned
     /\ last.path = "rule_classifier"
     /\ MarketingTable[LastSender]
     /\ ~ImportantTable[LastSender])
        => last.returned = "ignore"

\* a marketing sender's message with a question mark and a reply keyword
C10_Witness ==
    /\ Returned
    /\ last.path = "rule_classifier"
    /\ MarketingTable[LastSender]
    /\ ~ImportantTable[LastSender]
    /\ Contains(LastText, "?")
    /\ Contains(LastText, "please")
    /\ last.returned = "ignore"

\* the message with a question mark added at the end of its subject
WithQuestionMark(message) == [message EXCEPT !.subject = @ \o "?"]

\* C11: for a classified message whose text holds no question mark, adding
\* one (sender, preview and the rest of the subject fixed) raises the rule
\* engine's reply_score by exactly 2.
C11_QuestionMarkAddsTwo ==
    (/\ Returned
     /\ last.path = "rule_classifier"
     /\ ~Contains(LastText, "?"))
        => ReplyScore(CombinedText(WithQuestionMark(Message(last.idx))))
              = ReplyScore(LastText) + 2

\* C13: the rule engine is total: whenever MessageClassifier.classify_message
\* has run on a message (any sender, subject and preview of the input space,
\* the empty preview included) it has returned one value of the closed set
\* needs_reply / important / ignore, and the category stored is that value.
C13_RuleEngineTotal ==
    (/\ last.idx # 0
     /\ last.path = "rule_classifier"
     /\ ~Faulted(last.idx))
        => /\ last.returned \in Categories
           /\ last.category = last.returned
           /\ category[last.idx] = last.returned

\* a message with an empty preview, no keyword and a sender of no class: the
\* final default branch answers
C13_Witness ==
    /\ last.idx # 0
    /\ last.path = "rule_classifier"
    /\ Message(last.idx).preview = ""
    /\ ~ImportantTable[LastSender]
    /\ ~MarketingTable[LastSender]
    /\ CountIn(reply_keywords, LastText) = 0
    /\ CountIn(important_keywords, LastText) = 0
    /\ last.returned = "important"

\* inference-eligible messages ahead of message idx in the batch
EligibleBefore(idx) ==
    Cardinality({j \in 1..(idx - 1) : ~IsBatchFast(Message(j))})
\* message idx is inference-eligible and at least ten eligible ones precede it
BeyondCap(idx) ==
    ~IsBatchFast(Message(idx)) /\ EligibleBefore(idx) >= ML_CLASSIFICATION_CAP
\* the category as a function of the message and of its inference answer
ExpectedCategory(message, answer) ==
    IF answer \in Categories THEN answer ELSE RuleCategory(message)

RuleOnly == classifier = "ml" /\ ~classifier_pipeline /\ ~model

\* C15: when neither the zero-shot pipeline nor the custom model was loaded,
\* the hybrid classifier stays in rule-only mode: no action loads a backend,
\* the worker never calls one, and every message classify_batch classifies
\* gets the rule engine's category.
C15_RuleOnlyMode ==
    /\ [](RuleOnly =>
            /\ worker_calls = 0
            /\ worker # "hung"
            /\ last.calls = 0
            /\ last.answer \in {"unasked", None}
            /\ \A idx \in Indices :
                  (category[idx] # None /\ ~Faulted(idx))
                      => category[idx] = RuleCategory(Message(idx)))
    /\ [][RuleOnly => (~classifier_pipeline' /\ ~model')]_vars

\* a returned rule-only batch of three submitted messages, one of them ignored
C15_Witness ==
    /\ RuleOnly
    /\ pc = "done"
    /\ Len(messages) = 3
    /\ attempts = 3
    /\ Len(categorized.ignore) >= 1
    /\ Len(categorized.needs_reply) >= 1

\* the request thread is inside an inference attempt
InAttempt == pc \in {"future_wait", "executor_exit"}

\* C16: a memory-class error of the inference backend ends the attempt like a
\* timeout does: classify_message falls back to the rule engine's category,
\* the message is not submitted again, and no classification calls the
\* backend (pipeline or custom model) more than once.
C16_MemoryErrorNoRetry ==
    /\ worker_calls <= 1
    /\ last.calls <= 1
    /\ (Returned /\ last.cause \in {"memory", "timeout"}) =>
          /\ last.path = "fallback"
          /\ last.answer = None
          /\ last.category = RuleCategory(Message(last.idx))
    /\ last.cause = "memory" => last.calls = 1
    /\ pc = "ml_loop" => attempts = pos
    /\ InAttempt => attempts = pos + 1
    /\ pc \in {"rule_loop", "done"} /\ classifier = "ml" => attempts = Len(ml_messages)

\* a memory error of the backend answered by the rule engine's ignore, after
\* one backend call, in a batch that went on to return
C16_Witness ==
    /\ pc = "done"
    /\ last.cause = "memory"
    /\ last.path = "fallback"
    /\ last.calls = 1
    /\ last.category = "ignore"
    /\ attempts = Len(ml_messages)
    /\ attempts >= 2

\* every message of output list X carries category X
ListsAgree ==
    \A X \in Categories : \A k \in 1..Len(categorized[X]) :
        category[categorized[X][k]] = X

\* C17: every message in output list X carries category X, and when
\* classify_batch has returned every message carries a category; a category
\* once assigned is never changed by a later step, and no step changes the
\* sender, subject or preview of a message.
C17_CategoryAssignedOnce ==
    /\ [](ListsAgree /\ (pc = "done" => \A idx \in Indices : category[idx] \in Categories))
    /\ [][\A idx \in Indices :
             category[idx] # None => category'[idx] = category[idx]]_vars
    /\ [][messages' = messages]_vars

\* a returned hybrid batch of three in which one classification raised and
\* the three messages carry the categories of their lists, not all the same
C17_Witness ==
    /\ pc = "done"
    /\ classifier = "ml"
    /\ Len(messages) = 3
    /\ Cardinality(faults) = 1
    /\ \A idx \in Indices : category[idx] \in Categories /\ TimesListed(idx) = 1
    /\ category[1] # category[2]
    /\ ListsAgree

\* a message with a subject or sender that is empty after trimming or longer
\* than its bound (or a preview longer than its bound), for every message of
\* the pool
MalformedTable ==
    [raw \in RawPool |->
        \/ Strip(raw.subject) = ""
        \/ Strip(raw.sender) = ""
        \/ Len(raw.subject) > subject_max_length
        \/ Len(raw.sender) > sender_max_length
        \/ Len(raw.preview) > preview_max_length]
Malformed(req) ==
    \/ Len(req) = 0
    \/ Len(req) > messages_max_length
    \/ \E k \in 1..Len(req) : MalformedTable[req[k]]

\* a malformed request is answered by a validation failure only, and nothing
\* of it is ever classified
RejectedBeforeClassification ==
    Malformed(request) =>
        /\ pc \in {"received", "rejected"}
        /\ response \in {"none", "validation_error"}
        /\ pc = "rejected" <=> response = "validation_error"
        /\ messages = <<>>
        /\ attempts = 0
        /\ TotalListed = 0

\* a well-formed request is never answered by an error, and its response is
\* a categorization of every message sent
ServedWithoutError ==
    ~Malformed(request) =>
        /\ response \in {"none", "success"}
        /\ response = "success" =>
              /\ pc = "responded"
              /\ Len(messages) = Len(request)
              /\ \A idx \in Indices :
                    category[idx] \in Categories /\ TimesListed(idx) = 1

\* a well-formed request under classification can always take a step until
\* classify_batch has returned
ServedEventually ==
    (~Malformed(request) /\ pc \notin {"received", "responded", "done"})
        => ENABLED Next

\* C18: a request with no or more than 100 messages, or with a subject or
\* sender empty after trimming or over its length bound, gets a validation
\* failure and classify_batch is not entered; a well-formed request gets no
\* error response, and its classification goes on until the full
\* categorization is returned.
C18_MalformedRejectedWellFormedServed ==
    /\ RejectedBeforeClassification
    /\ ServedWithoutError
    /\ ServedEventually

\* seq is a leading part of other
IsPrefix(seq, other) ==
    Len(seq) <= Len(other) /\ SubSeq(other, 1, Len(seq)) = seq

\* the stored record is the one record_correction builds for the request
StoredFor(correction, req) ==
    /\ correction.message_id = req.message_id
    /\ correction.predicted = req.predicted
    /\ correction.correct = req.correct
    /\ correction.message.subject = req.message.subject
    /\ correction.message.sender = req.message.sender
    /\ correction.message.preview = req.message.preview

\* C19: the corrections log is append-only: it is the log loaded at startup
\* followed by one record per handled request, in the order of handling; a
\* record_correction step adds exactly one record at the end and no step
\* changes, moves or removes a record already in the log; a readable feedback
\* file never holds anything but a leading part of the log.
C19_AppendOnly ==
    /\ [](LET corrections == feedback_data.corrections
              base == Len(loaded.corrections)
          IN  /\ IsPrefix(loaded.corrections, corrections)
              /\ Len(corrections) = base + Len(recorded)
              /\ \A k \in 1..Len(recorded) :
                    /\ StoredFor(corrections[base + k], recorded[k])
                    /\ corrections[base + k].timestamp = base + k
              /\ feedback_file.status = "ok" =>
                    IsPrefix(feedback_file.data.corrections, corrections))
    /\ [][/\ IsPrefix(feedback_data.corrections, feedback_data'.corrections)
          /\ Len(feedback_data'.corrections) =
                Len(feedback_data.corrections) + Len(recorded') - Len(recorded)
          /\ Len(recorded') <= Len(recorded) + 1]_vars

\* three corrections recorded after a stored one, all four in the saved file
C19_Witness ==
    /\ Len(recorded) = 3
    /\ Len(feedback_data.corrections) = 4
    /\ feedback_data.corrections[1] = EarlierCorrection
    /\ feedback_file = StoredFile(feedback_data)
    /\ feedback_data.corrections[4].predicted = "ignore"

\* the counter of a key, 0 when the key is not in the statistics
CountKey(stats, key) == IF key \in DOMAIN stats THEN stats[key] ELSE 0
\* the handled requests of a key
RecordedOf(key) ==
    Cardinality({k \in 1..Len(recorded) :
                    StatKey(recorded[k].predicted, recorded[k].correct) = key})
StatKeys == {StatKey(a, b) : a \in Categories, b \in Categories}
Rids(seq) == {seq[k].rid : k \in 1..Len(seq)}

\* C20: with several correction requests in flight at once no update is
\* lost: every request received is either waiting or recorded exactly once,
\* the log has grown by one record per handled request, and each statistics
\* counter has grown by the number of handled requests of its key.
C20_NoLostUpdate ==
    /\ Rids(recorded) \cup {req.rid : req \in in_flight} = 1..Arrivals
    /\ Cardinality(Rids(recorded)) = Len(recorded)
    /\ \A req \in in_flight : req.rid \notin Rids(recorded)
    /\ Len(feedback_data.corrections) = Len(loaded.corrections) + Len(recorded)
    /\ \A key \in StatKeys :
          CountKey(feedback_data.statistics, key)
              = CountKey(loaded.statistics, key) + RecordedOf(key)
    /\ DOMAIN feedback_data.statistics \subseteq StatKeys

\* three requests were in flight together, were handled in another order than
\* they arrived, two of them of the key the stored file already counted
C20_Witness ==
    /\ in_flight = {}
    /\ Len(recorded) = 3
    /\ recorded[1].rid = 3
    /\ recorded[2].rid = 1
    /\ Len(loaded.corrections) = 1
    /\ CountKey(feedback_data.statistics, "important_to_ignore") = 3
    /\ Len(feedback_data.corrections) = 4

\* the corrections of the log get_accuracy_estimate is to count: the last
\* min(n, 50)
WindowSize(n) == IF n < recent_window THEN n ELSE recent_window
RightInWindow(corrections) ==
    Cardinality({k \in (Len(corrections) - WindowSize(Len(corrections)) + 1)..Len(corrections) :
                    corrections[k].predicted = corrections[k].correct})

\* C21 as stated: with n > 0 corrections the estimate reported is exactly
\* 100 * (right predictions among the last min(n, 50)) / min(n, 50); with no
\* corrections no estimate is reported.
C21_ExactRatio ==
    estimate.asked =>
        LET corrections == feedback_data.corrections
            n == Len(corrections)
        IN  IF n = 0 THEN ~estimate.has_estimate
            ELSE /\ estimate.has_estimate
                 /\ estimate.accuracy_estimate * WindowSize(n)
                       = 10000 * RightInWindow(corrections)

\* C21 amended: the estimate reported is that ratio rounded to two decimal
\* places (a tie to the even hundredth), counted over the last min(n, 50)
\* corrections only; the counts reported are those of that window; with no
\* corrections no estimate is reported.
C21_RecentWindowRounded ==
    estimate.asked =>
        LET corrections == feedback_data.corrections
            n == Len(corrections)
            right == RightInWindow(corrections)
            hundredths == estimate.accuracy_estimate
        IN  IF n = 0 THEN ~estimate.has_estimate
            ELSE /\ estimate.has_estimate
                 /\ 2 * (hundredths * WindowSize(n) - 10000 * right) <= WindowSize(n)
                 /\ 2 * (10000 * right - hundredths * WindowSize(n)) <= WindowSize(n)
                 /\ (2 * (hundredths * WindowSize(n) - 10000 * right) = WindowSize(n)
                        \/ 2 * (10000 * right - hundredths * WindowSize(n)) = WindowSize(n))
                       => hundredths % 2 = 0
                 /\ estimate.total_corrections = n
                 /\ estimate.recent_corrections = WindowSize(n)
                 /\ estimate.correct_predictions = right
                 /\ estimate.incorrect_predictions = WindowSize(n) - right

\* 52 corrections, the two oldest wrong and the 50 recent ones right: 100.00
C21_Witness ==
    /\ estimate.asked
    /\ Len(feedback_data.corrections) = recent_window + 2
    /\ feedback_data.corrections[1].correct = "ignore"
    /\ feedback_data.corrections[2].correct = "ignore"
    /\ estimate.accuracy_estimate = 10000
    /\ estimate.recent_corrections = recent_window

\* the quantities the rules are stated in, for the last classified message
IsNoReplySender == AnyRe(no_reply_patterns, Lower(LastSender))
IsInformational == AnyIn(informational_keywords, LastText)
HasQuestionMark == Contains(LastText, "?")
HasAssignment == AnyIn(assignment_keywords, LastText)
HasRequest == AnyIn(request_phrases, LastText)
LastReplyScore == CountIn(reply_keywords, LastText) + (IF HasQuestionMark THEN 2 ELSE 0)

\* C22: for an important sender the rule engine answers, first match wins:
\* (a) no-reply sender and informational text: important, whatever question
\* mark or reply keyword the text holds; (b) reply score >= 3, or >= 2 with a
\* question mark: needs_reply; (c) assignment and (reply score >= 1 or a
\* request phrase): needs_reply; (d) request phrase and reply score >= 1:
\* needs_reply; (e) otherwise important.
C22_ImportantSenderOrder ==
    (/\ Returned
     /\ last.path = "rule_classifier"
     /\ ImportantTable[LastSender])
        => last.returned =
              (IF IsNoReplySender /\ IsInformational THEN "important"
               ELSE IF \/ LastReplyScore >= 3
                       \/ (LastReplyScore >= 2 /\ HasQuestionMark)
                       \/ (HasAssignment /\ (LastReplyScore >= 1 \/ HasRequest))
                       \/ (HasRequest /\ LastReplyScore >= 1)
                    THEN "needs_reply"
               ELSE "important")

\* an announcement of a no-reply important sender whose text ends in a
\* question mark (reply score 3): important by rule (a)
C22_Witness ==
    /\ Returned
    /\ last.path = "rule_classifier"
    /\ ImportantTable[LastSender]
    /\ IsNoReplySender
    /\ IsInformational
    /\ HasQuestionMark
    /\ LastReplyScore >= 3
    /\ last.returned = "important"

\* C23: for a sender neither important nor marketing whose text triggers no
\* ignore rule, the rule engine returns needs_reply exactly when the reply
\* score is >= 2 (>= 3 included) or the text has an assignment keyword and
\* the reply score is >= 1, and important in every other case, never ignore.
C23_OtherSenderScoring ==
    (/\ Returned
     /\ last.path = "rule_classifier"
     /\ ~ImportantTable[LastSender]
     /\ ~MarketingTable[LastSender]
     /\ ~IgnoreKeywordScan(Message(last.idx), FALSE))
        => last.returned =
              (IF LastReplyScore >= 2 \/ (HasAssignment /\ LastReplyScore >= 1)
               THEN "needs_reply" ELSE "important")

\* two reply keywords, no question mark and no assignment: needs_reply by the
\* reply score alone
C23_Witness ==
    /\ Returned
    /\ last.path = "rule_classifier"
    /\ ~ImportantTable[LastSender]
    /\ ~MarketingTable[LastSender]
    /\ LastReplyScore = 2
    /\ ~HasQuestionMark
    /\ ~HasAssignment
    /\ last.returned = "needs_reply"

FastBefore(idx) == Cardinality({j \in 1..(idx - 1) : IsBatchFast(Message(j))})
NumEligible == Cardinality({j \in Indices : ~IsBatchFast(Message(j))})
NumFast == Cardinality({j \in Indices : IsBatchFast(Message(j))})

\* the place of message idx in the claimed processing order: the first ten
\* inference-eligible messages, then the fast-path ones, then the
\* inference-eligible ones beyond the tenth, each group in input order
Rank(idx) ==
    IF IsBatchFast(Message(idx))
        THEN Min(NumEligible, ML_CLASSIFICATION_CAP) + FastBefore(idx) + 1
    ELSE IF EligibleBefore(idx) < ML_CLASSIFICATION_CAP
        THEN EligibleBefore(idx) + 1
    ELSE NumFast + EligibleBefore(idx) + 1

\* C24: the hybrid classify_batch classifies the messages in the order of
\* Rank: the k-th message to be classified is the one of rank k, and a step
\* that classifies a message appends it to the end of one output list and
\* leaves the lists otherwise as they were, so every list holds its messages
\* in that order (an inference-path message ahead of every rule-routed one).
C24_ProcessingOrder ==
    /\ []((classifier = "ml" /\ last.idx # 0) => Rank(last.idx) = TotalListed)
    /\ [][classifier = "ml" =>
            \/ categorized' = categorized
            \/ \E X \in Categories :
                  categorized' = [categorized EXCEPT ![X] = Append(@, last'.idx)]]_vars

\* a returned batch whose needs_reply list holds the inference-path message
\* 2 ahead of the fast-path messages 1 and 3
C24_Witness ==
    /\ classifier = "ml"
    /\ pc = "done"
    /\ Len(messages) = 3
    /\ IsBatchFast(Message(1))
    /\ ~IsBatchFast(Message(2))
    /\ categorized.needs_reply = <<2, 1, 3>>
    /\ last.idx = 3

\* C25: every sender the fast-path routing set of classify_batch matches
\* satisfies the rule engine's _is_important_sender; classify_batch routes a
\* message of such a sender to the rule engine and never classifies it
\* ignore; the routing test of classify_message agrees with that of
\* classify_batch on every sender, so no message of the inference list takes
\* the dispatcher's fast path.
C25_FastPathIsImportantSender ==
    classifier = "ml" =>
        /\ \A idx \in Indices :
              LET sender == Message(idx).sender IN
              /\ BatchTable[sender] = DispatcherTable[sender]
              /\ BatchTable[sender] =>
                    /\ ImportantTable[sender]
                    /\ category[idx] # "ignore"
                    /\ pc # "start" =>
                          \E k \in 1..Len(rule_based_messages) : rule_based_messages[k] = idx
        /\ last.path # "fast_path"
        /\ (last.idx # 0 /\ BatchTable[LastSender]) => last.path = "rule_routed"

\* a digest of a sender that matches the routing set by "staff" and the
\* marketing set by "deals": routed to the rules, classified important
C25_Witness ==
    /\ classifier = "ml"
    /\ pc = "done"
    /\ BatchTable[Message(1).sender]
    /\ MarketingTable[Message(1).sender]
    /\ AnyIn(ignore_keywords, CombinedText(Message(1)))
    /\ last.path = "rule_routed"
    /\ category[1] = "important"

\* the sender matches a pattern of the zero-shot pre-filter, for every sender
\* of the input space
PrefilterSenderTable ==
    [a \in AllSenders |->
        \/ Contains(Lower(a), "classroom.google.com")
        \/ Contains(Lower(a), "@.edu")
        \/ \E w \in {"teacher@", "professor@", "instructor@", "faculty@", "staff@"} :
              Contains(Lower(a), w)]

\* C30: every sender that matches a pattern of the zero-shot pre-filter
\* matches the fast-path set, so no message submitted to the inference worker
\* is from such a sender: whenever _classify_with_zero_shot runs, its
\* pre-filter declines and the pipeline is called, and no category is ever
\* decided by the pre-filter's reply-indicator rule.
C30_PrefilterNeverDecides ==
    classifier = "ml" =>
        /\ \A idx \in Indices :
              PrefilterSenderTable[Message(idx).sender]
                  => (DispatcherTable[Message(idx).sender] /\ BatchTable[Message(idx).sender])
        /\ worker # "idle" =>
              /\ ~PrefilterSenderTable[Message(LoopMessage(ml_messages, pos)).sender]
              /\ Prefilter(Message(LoopMessage(ml_messages, pos))) = None
        /\ worker_cause # "prefilter"
        /\ last.cause # "prefilter"
        /\ (classifier_pipeline /\ worker = "finished") => worker_calls >= 1

\* a question of a sender the rule engine holds important but the fast path
\* does not match: the pipeline was called and its label ignore was returned
C30_Witness ==
    /\ classifier = "ml"
    /\ classifier_pipeline
    /\ pc = "done"
    /\ ImportantTable[Message(1).sender]
    /\ ~DispatcherTable[Message(1).sender]
    /\ Contains(CombinedText(Message(1)), "?")
    /\ last.path = "inference"
    /\ last.cause = "label"
    /\ last.calls = 1
    /\ last.category = "ignore"

LabelsWith(phrase) == {l \in LabelPool : Contains(Lower(l), phrase)}
NeedsReplyLabels == LabelsWith("needs reply")
ImportantLabels == LabelsWith("important")

\* C28: when the zero-shot pipeline has returned a best label, the category
\* returned is needs_reply if the label contains "needs reply", otherwise
\* important if it contains "important", otherwise ignore: always one of the
\* closed set, and ignore for a label that names no category.
C28_LabelMapping ==
    /\ (worker = "finished" /\ worker_cause = "label") =>
          /\ worker_result =
                (IF best_label \in NeedsReplyLabels THEN "needs_reply"
                 ELSE IF best_label \in ImportantLabels THEN "important"
                 ELSE "ignore")
          /\ worker_result \in Categories
    /\ (last.path = "inference" /\ last.cause = "label") =>
          /\ last.answer \in Categories
          /\ last.returned \in Categories \cup {"raised"}
          /\ best_label \notin (NeedsReplyLabels \cup ImportantLabels)
                => last.answer = "ignore"

\* a message the rule engine classifies needs_reply, returned as ignore for
\* a best label that names no category
C28_Witness ==
    /\ pc = "done"
    /\ best_label = "spam"
    /\ last.path = "inference"
    /\ last.cause = "label"
    /\ last.category = "ignore"
    /\ RuleCategory(Message(last.idx)) = "needs_reply"

RECURSIVE SumCounters(_, _)
\* the sum of the counters of the keys
SumCounters(counters, keys) ==
    IF keys = {} THEN 0
    ELSE LET key == CHOOSE k \in keys : TRUE
         IN  counters[key] + SumCounters(counters, keys \ {key})

\* the stored corrections of a predicted / correct pair
StoredOfPair(predicted, correct) ==
    Cardinality({k \in 1..Len(feedback_data.corrections) :
                    /\ feedback_data.corrections[k].predicted = predicted
                    /\ feedback_data.corrections[k].correct = correct})
\* the key the claim names for a pair
PairKey(predicted, correct) == predicted \o "_to_" \o correct
PairKeys == {PairKey(a, b) : a \in Categories, b \in Categories}

\* C29: from an empty correction store (no feedback file, or one that could
\* not be read), after any sequence of record_correction calls the counters
\* of the statistics sum to the number of stored corrections, the counter of
\* each predicted_to_correct key is the number of stored corrections of that
\* pair, and a pair with no stored correction has no counter; the keys of
\* the nine pairs of categories are pairwise different.
C29_CountersMatchLog ==
    /\ Cardinality(PairKeys) = 9
    /\ loaded = EmptyData =>
          LET counters == feedback_data.statistics IN
          /\ SumCounters(counters, DOMAIN counters) = Len(feedback_data.corrections)
          /\ \A a \in Categories, b \in Categories :
                IF StoredOfPair(a, b) = 0 THEN PairKey(a, b) \notin DOMAIN counters
                ELSE /\ PairKey(a, b) \in DOMAIN counters
                     /\ counters[PairKey(a, b)] = StoredOfPair(a, b)
          /\ DOMAIN counters \subseteq PairKeys

\* an unreadable or missing file, then three corrections of two pairs: the
\* counters are 2 and 1
C29_Witness ==
    /\ loaded = EmptyData
    /\ in_flight = {}
    /\ Len(feedback_data.corrections) = 3
    /\ DOMAIN feedback_data.statistics = {"important_to_ignore", "ignore_to_needs_reply"}
    /\ feedback_data.statistics["important_to_ignore"] = 2
    /\ feedback_data.statistics["ignore_to_needs_reply"] = 1

====
